---------------------------- MODULE Spec2Model ----------------------------
(***************************************************************************)
(* WalletManager of specter-desktop (wallet_manager.py): the reconciliation*)
(* pass `update`, the alias allocator, wallet creation, deletion and       *)
(* rename, against a node reached through the RPC gateway `cli`.           *)
(*                                                                         *)
(* Strings that the code transforms (wallet names, aliases) are sequences  *)
(* of one-character strings.  A node wallet path os.path.join(cli_path,    *)
(* alias) is the pair <<cli_path, alias>>.                                 *)
(***************************************************************************)
EXTENDS Integers, Sequences, FiniteSets, TLC

(* ------------------------------ bounds -------------------------------- *)
\* operations (constructor excluded) invoked on the manager in one behaviour
MaxOps == 2
\* local record files in the working folder at start
MaxFiles == 2
\* the same, where two threads call the manager
MaxFilesConc == 1
\* pending PSBTs recorded in one wallet record
MaxPsbts == 1
\* the signature threshold callers pass to create_multi
MaxSigs == 2
\* keys in one create_multi call, where the descriptor builder is examined
MaxKeys == 3

None == "None"
\* self.working_folder = None (a folder is os.path.join(data_folder, chain),
\* the pair <<data_folder, chain>>)
NoFolder == <<>>
Threads == {1, 2}
\* wallet_manager.py:33  path="specter"
cli_path == "specter"

\* display names callers choose, as character sequences
Names == { <<"W">>, <<"w", " ", "2">> }
DataFolders == {"d"}
Chains == {"main"}
\* the gateway handle
Clis == {"rpc"}
\* key.metadata['combined'] of the keys callers pass: each key-origin
\* descriptor fragment is one token
Keys == {"K1", "K2", "K3"}
\* wallet_manager.py:12-29: the key types of purposes / addrtypes, as token
\* sequences
SimpleTypes == { <<"wpkh">>, <<"sh", "-", "wpkh">>, <<"pkh">> }
MultiTypes == { <<"wsh">>, <<"sh", "-", "wsh">>, <<"sh">> }

(* ------------------------- helpers (helpers.py) ------------------------ *)
Alnum == {"W", "w", "0", "1", "2", "3", "4", "5", "6", "7", "8", "9"}

Lower(c) == IF c = "W" THEN "w" ELSE c

\* helpers.alias: spaces become "_", everything but letters, digits and "_"
\* is dropped, the rest is lower-cased
alias(name) ==
  LET r == [i \in 1..Len(name) |-> IF name[i] = " " THEN "_" ELSE name[i]]
      f == SelectSeq(r, LAMBDA c : c \in Alnum \cup {"_"})
  IN  [i \in 1..Len(f) |-> Lower(f[i])]

DigitChar(d) ==
  CASE d = 0 -> "0" [] d = 1 -> "1" [] d = 2 -> "2" [] d = 3 -> "3"
    [] d = 4 -> "4" [] d = 5 -> "5" [] d = 6 -> "6" [] d = 7 -> "7"
    [] d = 8 -> "8" [] d = 9 -> "9"

RECURSIVE Decimal(_)
\* "%d" % i
Decimal(i) == IF i < 10 THEN <<DigitChar(i)>>
              ELSE Decimal(i \div 10) \o <<DigitChar(i % 10)>>

\* "%s %d" % (name, i)
Suffixed(name, i) == name \o <<" ">> \o Decimal(i)

\* os.path.join(self.cli_path, alias)
JoinPath(p, a) == <<p, a>>

Put(f, k, v) == [x \in (DOMAIN f) \cup {k} |-> IF x = k THEN v ELSE f[x]]

EmptyRegistry == [x \in {} |-> 0]

Range(s) == {s[i] : i \in DOMAIN s}

RECURSIVE LoadFrom(_, _)
\* load_jsons(folder, key="name") over the files in the order it reads them:
\* an OrderedDict keyed by name; a later file with the same name replaces
\* the value and keeps the key's place.  The result is the sequence of the
\* dict's values in key order.
LoadFrom(fs, acc) ==
  IF fs = <<>> THEN acc
  ELSE LET d == Head(fs)
           hit == {i \in DOMAIN acc : acc[i].name = d.name}
       IN  LoadFrom(Tail(fs),
                    IF hit = {} THEN Append(acc, d)
                    ELSE [i \in DOMAIN acc |-> IF i \in hit THEN d ELSE acc[i]])

load_jsons(fs) == LoadFrom(fs, <<>>)

\* Wallet.from_json(record, device_manager, self): the in-memory wallet
from_json(d) == [name |-> d.name, alias |-> d.alias, psbts |-> d.psbts,
                 type |-> d.type, sigs_required |-> d.sigs_required,
                 keys |-> d.keys, recv_descriptor |-> d.recv_descriptor,
                 change_descriptor |-> d.change_descriptor]

\* the files of the folder after <alias>.json is written: one file per alias,
\* the file just written is the newest
WriteFile(fs, d) == Append(SelectSeq(fs, LAMBDA x : x.alias # d.alias), d)

\* the files of the folder after <alias>.json is removed (if it was there)
RemoveFile(fs, a) == SelectSeq(fs, LAMBDA x : x.alias # a)

FileAliases(fs) == {fs[i].alias : i \in DOMAIN fs}

RECURSIVE ProbeOnAlias(_, _, _, _, _)
\* variant: the number is appended to the alias tried last, not to the name
ProbeOnAlias(name, al, i, fs, walletsindir) ==
  IF al \in FileAliases(fs) \/ JoinPath(cli_path, al) \in walletsindir
    THEN ProbeOnAlias(name, al \o <<"_">> \o Decimal(i), i + 1, fs, walletsindir)
    ELSE al

RECURSIVE ProbeFilesOnly(_, _, _, _, _)
\* variant: only the record files are probed, not the node's wallet directory
ProbeFilesOnly(name, al, i, fs, walletsindir) ==
  IF al \in FileAliases(fs)
    THEN ProbeFilesOnly(name, alias(Suffixed(name, i)), i + 1, fs, walletsindir)
    ELSE al

RECURSIVE Probe(_, _, _, _, _)
\* wallet_manager.py:104-107: the while loop of _get_initial_wallet_dict
Probe(name, al, i, fs, walletsindir) ==
  IF al \in FileAliases(fs) \/ JoinPath(cli_path, al) \in walletsindir
    THEN Probe(name, alias(Suffixed(name, i)), i + 1, fs, walletsindir)
    ELSE al

\* wallet_manager.py:102-120 (the counters and addresses of the dict are not
\* modelled; the keys the dict does not have yet are "none", 0 and <<>>)
get_initial_wallet_dict(name, fs, walletsindir) ==
  [name |-> name, alias |-> Probe(name, alias(name), 2, fs, walletsindir),
   psbts |-> 0, type |-> "none", sigs_required |-> 0, keys |-> <<>>,
   recv_descriptor |-> <<>>, change_descriptor |-> <<>>]

(* ------------------------- descriptor building ------------------------ *)
\* the tokens descriptors are made of
Tokens == << "K1", "K2", "K3", "/0/*", "/1/*", "sortedmulti", "(", ")", ",",
             "wsh", "sh", "wpkh", "pkh", "-", "#",
             "0", "1", "2", "3", "4", "5", "6", "7", "8", "9" >>

TokenCode(c) == CHOOSE i \in DOMAIN Tokens : Tokens[i] = c

RECURSIVE DescHash(_, _)
\* descriptor.AddChecksum computes a checksum over the characters of the
\* descriptor: here a rolling hash over its tokens
DescHash(d, h) ==
  IF d = <<>> THEN h
  ELSE DescHash(Tail(d), (h * 31 + TokenCode(Head(d))) % 9973)

\* descriptor.AddChecksum(desc): desc + "#" + checksum
AddChecksum(d) == d \o <<"#">> \o Decimal(DescHash(d, 1))

RECURSIVE Split(_, _)
\* key_type.split("-"), the word being collected in cur
Split(s, cur) ==
  IF s = <<>> THEN <<cur>>
  ELSE IF Head(s) = "-" THEN <<cur>> \o Split(Tail(s), <<>>)
       ELSE Split(Tail(s), cur \o <<Head(s)>>)

\* arr = key_type.split("-"): every word of a key type is one token
split(key_type) == LET ws == Split(key_type, <<>>)
                   IN  [i \in DOMAIN ws |-> ws[i][1]]

Reverse(s) == [i \in DOMAIN s |-> s[Len(s) + 1 - i]]

RECURSIVE Join(_, _)
\* sep.join(strs)
Join(strs, sep) ==
  IF strs = <<>> THEN <<>>
  ELSE IF Len(strs) = 1 THEN strs[1]
       ELSE strs[1] \o sep \o Join(Tail(strs), sep)

\* variant: the template list is traversed front to back
WrapOrderForward(arr) == arr

\* wallet_manager.py:139,167  for el in arr[::-1]
WrapOrder(arr) == Reverse(arr)

RECURSIVE Wrap(_, _)
\* wallet_manager.py:139-141 / 167-169: desc = "%s(%s)" % (el, desc) for
\* each el of els in turn
Wrap(els, desc) ==
  IF els = <<>> THEN desc
  ELSE Wrap(Tail(els), <<Head(els), "(">> \o desc \o <<")">>)

\* wallet_manager.py:135-143: the descriptor of create_simple for one branch
\* ("/0/*" receive, "/1/*" change)
simple_descriptor(key_type, key, branch) ==
  AddChecksum(Wrap(WrapOrder(split(key_type)), <<key, branch>>))

\* wallet_manager.py:161-171: the descriptor of create_multi for one branch
multi_descriptor(sigs_required, key_type, keys, branch) ==
  LET descs == [i \in DOMAIN keys |-> <<keys[i], branch>>]
      inner == <<"sortedmulti", "(">> \o Decimal(sigs_required) \o <<",">>
                 \o Join(descs, <<",">>) \o <<")">>
  IN  AddChecksum(Wrap(WrapOrder(split(key_type)), inner))

\* wallet_manager.py:144-153: wallet.update({...}) of create_simple
simple_fields(w, key_type, key) ==
  [w EXCEPT !.type = "simple", !.sigs_required = 1, !.keys = <<key>>,
            !.recv_descriptor = simple_descriptor(key_type, key, "/0/*"),
            !.change_descriptor = simple_descriptor(key_type, key, "/1/*")]

\* wallet_manager.py:172-181: wallet.update({...}) of create_multi
multi_fields(w, sigs_required, key_type, keys) ==
  [w EXCEPT !.type = "multisig", !.sigs_required = sigs_required,
            !.keys = keys,
            !.recv_descriptor =
               multi_descriptor(sigs_required, key_type, keys, "/0/*"),
            !.change_descriptor =
               multi_descriptor(sigs_required, key_type, keys, "/1/*")]

(* ------------------------------- state -------------------------------- *)
VARIABLES
  data_folder, chain, cli, working_folder,  \* WalletManager fields
  is_loading,                               \* the re-entrancy flag
  wallets,                                  \* the registry: name -> wallet
  files,          \* record files of the working folder, oldest write first
  nodeDisk,       \* listwalletdir: wallet paths on the node's disk
  nodeLoaded,     \* listwallets: wallet paths loaded in the node
  corrupt,        \* paths the node cannot load (loadwallet -> RpcError)
  nodeLocked,     \* <<path, psbt>> whose inputs lockunspent(False, ..) locked
  epoch,          \* how often the node changed on its own
  pc, loc,        \* per thread: position, and arguments / local variables
  log,            \* per thread: gateway calls and registrations of its
                  \* current (or last) operation
  res,            \* per thread: how its last operation ended
  constructed,    \* __init__ has returned
  ops             \* operations invoked so far

vars == <<data_folder, chain, cli, working_folder, is_loading, wallets, files,
          nodeDisk, nodeLoaded, corrupt, nodeLocked, epoch, pc, loc, log, res,
          constructed, ops>>

mgr == <<data_folder, chain, cli, working_folder, is_loading, wallets>>
node == <<nodeDisk, nodeLoaded, corrupt, nodeLocked, epoch>>

NoWallet == [name |-> <<>>, alias |-> <<>>, psbts |-> 0, type |-> "none",
             sigs_required |-> 0, keys |-> <<>>, recv_descriptor |-> <<>>,
             change_descriptor |-> <<>>]

\* the arguments of a create call besides the name
NoArgs == [sigs_required |-> 0, key_type |-> <<>>, keys |-> <<>>]

NoPrev == [op |-> "none", res |-> "none", reg |-> EmptyRegistry,
           folder |-> NoFolder, w |-> NoWallet, e0 |-> 0, failed |-> {}]

\* a thread's arguments and local variables; seen, e0 and prev record what
\* the operation found when it was called
NoLoc == [op |-> "none", df |-> None, cli |-> None, chain |-> None,
          wf |-> <<>>, existing |-> {}, loaded |-> {}, i |-> 1,
          w |-> NoWallet, name |-> <<>>, args |-> NoArgs, dir |-> {},
          seen |-> <<>>, e0 |-> 0, prev |-> NoPrev]

InitAliases == {alias(n) : n \in Names}
InitPaths == {JoinPath(cli_path, a) : a \in InitAliases}
\* the record files there may be at start: single-key wallets as
\* create_simple writes them, with or without pending PSBTs
InitRecords ==
  { [simple_fields(NoWallet, <<"wpkh">>, "K1") EXCEPT
       !.name = n, !.alias = a, !.psbts = p] :
    n \in Names, a \in InitAliases, p \in 0..MaxPsbts }

\* sequences of at most n records with pairwise different aliases (one file
\* <alias>.json per alias)
RECURSIVE FileSeqs(_)
FileSeqs(n) ==
  IF n = 0 THEN {<<>>}
  ELSE LET shorter == FileSeqs(n - 1)
       IN  shorter \cup
           {Append(p[1], p[2]) : p \in
              {q \in shorter \X InitRecords :
                 /\ Len(q[1]) = n - 1
                 /\ \A i \in DOMAIN q[1] : q[1][i].alias # q[2].alias}}

\* the arguments __init__ is called with: data_folder, cli, chain
InitConfigs == { <<"d", "rpc", "main">>, <<"d", None, None>>,
                 <<None, None, None>>, <<"d", None, "main">> }

\* wallet_manager.py:33-40: the fields as __init__ sets them, thread 1 about
\* to run self.update(data_folder, cli, chain); the folder and the node are
\* in any state
Init ==
  /\ \E cfg \in InitConfigs :
       data_folder = cfg[1] /\ cli = cfg[2] /\ chain = cfg[3]
  /\ working_folder = NoFolder
  /\ is_loading = FALSE
  /\ wallets = EmptyRegistry
  /\ files \in FileSeqs(MaxFiles)
  /\ nodeDisk \in SUBSET InitPaths
  /\ nodeLoaded \in SUBSET nodeDisk
  /\ corrupt \in SUBSET (nodeDisk \ nodeLoaded)
  /\ nodeLocked = {}
  /\ epoch = 0
  /\ pc = [t \in Threads |-> IF t = 1 THEN "upd_check" ELSE "idle"]
  /\ loc = [t \in Threads |->
              IF t = 1 THEN [NoLoc EXCEPT !.op = "init", !.df = data_folder,
                                          !.cli = cli, !.chain = chain]
              ELSE NoLoc]
  /\ log = [t \in Threads |-> <<>>]
  /\ res = [t \in Threads |-> "none"]
  /\ constructed = FALSE
  /\ ops = 0

\* the operation of thread t ends: it returned ("ok", or "noop" for an update
\* that found the flag set) or an exception left it ("raised")
Finish(t, how) ==
  /\ pc' = [pc EXCEPT ![t] = "idle"]
  /\ res' = [res EXCEPT ![t] = how]
  /\ constructed' = (constructed \/ (loc[t].op = "init" /\ how # "raised"))

(* ------------------------------ update -------------------------------- *)
\* variant: the flag is not looked at
GuardedNever == FALSE

\* wallet_manager.py:43  if self.is_loading
Guarded == is_loading

\* wallet_manager.py:43-44: the re-entrancy check
UpdCheck(t) ==
  /\ pc[t] = "upd_check"
  /\ IF Guarded
       THEN Finish(t, "noop")
       ELSE /\ pc' = [pc EXCEPT ![t] = "upd_begin"]
            /\ UNCHANGED <<res, constructed>>
  /\ UNCHANGED <<mgr, files, node, loc, log, ops>>

\* wallet_manager.py:45-63: take the flag, apply the overrides, derive the
\* working folder, reset the registry
UpdBegin(t) ==
  /\ pc[t] = "upd_begin"
  /\ LET a == loc[t]
         ch == IF a.chain # None THEN a.chain ELSE chain
         df == IF a.df # None THEN a.df ELSE data_folder
         wf == IF ch # None /\ df # None THEN <<df, ch>> ELSE NoFolder
     IN  /\ is_loading' = TRUE
         /\ chain' = ch
         /\ data_folder' = df
         /\ working_folder' = wf
         /\ cli' = IF a.cli # None THEN a.cli ELSE cli
         /\ wallets' = EmptyRegistry
         /\ pc' = [pc EXCEPT ![t] = IF wf # NoFolder THEN "upd_list" ELSE "upd_end"]
  /\ UNCHANGED <<files, node, loc, log, res, constructed, ops>>

\* wallet_manager.py:65-68: read the records, list the node's wallets.  With
\* no gateway (cli is None) self.cli.listwalletdir() raises; a listing call
\* that fails raises too.  Nothing catches either: the call ends there.
UpdList(t) ==
  /\ pc[t] = "upd_list"
  /\ \E fails \in BOOLEAN :
       IF cli = None \/ fails
         THEN /\ Finish(t, "raised")
              /\ log' = [log EXCEPT ![t] = IF cli = None THEN @
                                           ELSE Append(@, <<"listwalletdir", "err">>)]
              /\ loc' = loc
         ELSE /\ loc' = [loc EXCEPT ![t].wf = load_jsons(files),
                                    ![t].existing = nodeDisk,
                                    ![t].loaded = nodeLoaded,
                                    ![t].i = 1]
              /\ log' = [log EXCEPT ![t] = @ \o << <<"listwalletdir", "ok">>,
                                                   <<"listwallets", "ok">> >>]
              /\ pc' = [pc EXCEPT ![t] = "upd_loop"]
              /\ UNCHANGED <<res, constructed>>
  /\ UNCHANGED <<mgr, files, node, ops>>

\* variant: every local record is taken to be in the node's wallet directory
ExistingWalletsWithLocal(t) ==
  loc[t].existing \cup {JoinPath(cli_path, loc[t].wf[i].alias) : i \in DOMAIN loc[t].wf}

\* wallet_manager.py:66  existing_wallets, as the loop reads it
ExistingWallets(t) == loc[t].existing

\* wallet_manager.py:72  os.path.join(self.cli_path, wallet_alias) in existing_wallets
OnNodeDisk(t, path) == path \in ExistingWallets(t)

\* variant: not_loaded_wallets comes out empty
NotLoadedNever(t, path) == FALSE

\* wallet_manager.py:68,73  ... in not_loaded_wallets
NotLoaded(t, path) == path \in ExistingWallets(t) /\ path \notin loc[t].loaded

\* variant: the branch for wallets the node has already loaded is missing
AlreadyLoadedNever(t, path) == FALSE

\* wallet_manager.py:85  elif ... in loaded_wallets
AlreadyLoaded(t, path) == path \in loc[t].loaded

\* self.cli.loadwallet(path) succeeds when the node has the wallet on disk,
\* has not loaded it yet and can read it; otherwise RpcError
LoadOk(path) == path \in nodeDisk /\ path \notin nodeLoaded /\ path \notin corrupt

\* variant: the RpcError of loadwallet is not caught
LoadErrorEscapes == FALSE

\* wallet_manager.py:83  except RpcError: the load failure stays in the loop
LoadErrorCaught == TRUE

\* wallet_manager.py:69-88: the loop body for the record at loc[t].i
UpdRecord(t) ==
  /\ pc[t] = "upd_loop"
  /\ loc[t].i <= Len(loc[t].wf)
  /\ LET d == loc[t].wf[loc[t].i]
         path == JoinPath(cli_path, d.alias)
         stay == /\ loc' = [loc EXCEPT ![t].i = @ + 1]
                 /\ UNCHANGED <<pc, res, constructed>>
     IN  IF OnNodeDisk(t, path)
           THEN IF NotLoaded(t, path)
                  THEN IF LoadOk(path)
                         THEN \* 76-82: load, register, lock the PSBTs' inputs;
                              \* a lockunspent RpcError ends the locking
                              \E n \in 0..d.psbts :
                                /\ nodeLoaded' = nodeLoaded \cup {path}
                                /\ wallets' = Put(wallets, d.name, from_json(d))
                                /\ nodeLocked' = nodeLocked \cup
                                                   {<<path, k>> : k \in 1..n}
                                /\ log' = [log EXCEPT ![t] =
                                     @ \o << <<"loadwallet", path, "ok">>,
                                             <<"register", d.name, d.alias>> >>
                                       \o [k \in 1..n |-> <<"lockunspent", path, "ok">>]
                                       \o (IF n < d.psbts
                                             THEN << <<"lockunspent", path, "err">> >>
                                             ELSE <<>>)]
                                /\ stay
                         ELSE \* 83-84: RpcError caught
                              /\ log' = [log EXCEPT ![t] =
                                           Append(@, <<"loadwallet", path, "err">>)]
                              /\ UNCHANGED <<nodeLoaded, wallets, nodeLocked>>
                              /\ IF LoadErrorCaught
                                   THEN stay
                                   ELSE Finish(t, "raised") /\ loc' = loc
                  ELSE IF AlreadyLoaded(t, path)
                         THEN \* 85-86
                              /\ wallets' = Put(wallets, d.name, from_json(d))
                              /\ log' = [log EXCEPT ![t] =
                                           Append(@, <<"register", d.name, d.alias>>)]
                              /\ UNCHANGED <<nodeLoaded, nodeLocked>>
                              /\ stay
                         ELSE UNCHANGED <<nodeLoaded, wallets, nodeLocked, log>> /\ stay
           ELSE \* 87-88: not in core's wallets
                UNCHANGED <<nodeLoaded, wallets, nodeLocked, log>> /\ stay
  /\ UNCHANGED <<data_folder, chain, cli, working_folder, is_loading, files,
                 nodeDisk, corrupt, epoch, ops>>

\* variant: the flag is left as it is
FlagAtEndKept == is_loading

\* wallet_manager.py:89  self.is_loading = False
FlagAtEnd == FALSE

\* wallet_manager.py:89: release the flag and return
UpdEnd(t) ==
  /\ \/ pc[t] = "upd_end"
     \/ pc[t] = "upd_loop" /\ loc[t].i > Len(loc[t].wf)
  /\ is_loading' = FlagAtEnd
  /\ Finish(t, "ok")
  /\ UNCHANGED <<data_folder, chain, cli, working_folder, wallets, files,
                 node, loc, log, ops>>

(* ------------------------------ callers ------------------------------- *)
\* a caller may start an operation: the manager exists, the thread is free
CanCall(t) == constructed /\ pc[t] = "idle" /\ ops < MaxOps

\* the node paths for which t's operation logged a loadwallet call that
\* failed (lines 76, 83)
FailedPaths(t) ==
  {log[t][i][2] : i \in {j \in DOMAIN log[t] : /\ log[t][j][1] = "loadwallet"
                                               /\ log[t][j][3] = "err"}}

\* the locals of a new operation of thread t
NewLoc(t, op) ==
  [NoLoc EXCEPT !.op = op, !.e0 = epoch,
                !.prev = [op |-> loc[t].op, res |-> res[t], reg |-> wallets,
                          folder |-> working_folder, w |-> loc[t].w,
                          e0 |-> loc[t].e0, failed |-> FailedPaths(t)]]

Called(t) ==
  /\ log' = [log EXCEPT ![t] = <<>>]
  /\ ops' = ops + 1

\* update(data_folder, cli, chain) called from outside
CallUpdate(t) ==
  /\ CanCall(t)
  /\ \E df \in DataFolders \cup {None}, c \in Clis \cup {None},
        ch \in Chains \cup {None} :
       loc' = [loc EXCEPT ![t] = [NewLoc(t, "update") EXCEPT
                                    !.df = df, !.cli = c, !.chain = ch]]
  /\ pc' = [pc EXCEPT ![t] = "upd_check"]
  /\ res' = [res EXCEPT ![t] = "none"]
  /\ Called(t)
  /\ UNCHANGED <<mgr, files, node, constructed>>

(* --------------------------- create_simple/multi ----------------------- *)
\* wallet_manager.py:133-134 / 158-159, 101-120: the call and its initial
\* dict.  Without a gateway self.cli.listwalletdir() raises, a failing listing
\* raises, and without a working folder os.path.join(None, ..) raises.
Create(t, op, args) ==
  /\ CanCall(t)
  /\ \E name \in Names, fails \in BOOLEAN :
       IF cli = None \/ fails \/ working_folder = NoFolder
         THEN /\ loc' = [loc EXCEPT ![t] = [NewLoc(t, op) EXCEPT
                                             !.name = name, !.args = args]]
              /\ pc' = pc
              /\ res' = [res EXCEPT ![t] = "raised"]
         ELSE /\ loc' = [loc EXCEPT ![t] =
                   [NewLoc(t, op) EXCEPT
                      !.name = name,
                      !.args = args,
                      !.dir = nodeDisk,
                      !.seen = files,
                      !.w = get_initial_wallet_dict(name, files, nodeDisk)]]
              /\ pc' = [pc EXCEPT ![t] = "cr_build"]
              /\ res' = [res EXCEPT ![t] = "none"]
  /\ Called(t)
  /\ UNCHANGED <<mgr, files, node, constructed>>

\* the key type and key callers pass to create_simple
SimpleCalls ==
  { [sigs_required |-> 1, key_type |-> <<"wpkh">>, keys |-> <<"K1">>] }

\* the threshold, key type and keys callers pass to create_multi
MultiCalls ==
  { [sigs_required |-> m, key_type |-> <<"sh", "-", "wsh">>,
     keys |-> <<"K1">>] : m \in 1..MaxSigs }

\* wallet_manager.py:133-155
create_simple(t) == \E a \in SimpleCalls : Create(t, "create_simple", a)

\* wallet_manager.py:158-183
create_multi(t) == \E a \in MultiCalls : Create(t, "create_multi", a)

\* wallet_manager.py:135-153 / 161-181: build the descriptors and fill in the
\* type-specific keys of the dict
CrBuild(t) ==
  /\ pc[t] = "cr_build"
  /\ LET a == loc[t].args
     IN  loc' = [loc EXCEPT ![t].w =
                   IF loc[t].op = "create_simple"
                     THEN simple_fields(@, a.key_type, a.keys[1])
                     ELSE multi_fields(@, a.sigs_required, a.key_type, a.keys)]
  /\ pc' = [pc EXCEPT ![t] = "cr_createwallet"]
  /\ UNCHANGED <<mgr, files, node, log, res, constructed, ops>>

\* createwallet(path, True) fails when the node already has a wallet there
CreateOk(path) == path \notin nodeDisk

\* variant: the error of createwallet is swallowed
CreateErrorSwallowed == FALSE

\* wallet_manager.py:124: nothing around the call catches its error
CreateErrorRaised == TRUE

\* wallet_manager.py:124: the node creates (and loads) the wallet, or the
\* call raises
CrCreateWallet(t) ==
  /\ pc[t] = "cr_createwallet"
  /\ LET path == JoinPath(cli_path, loc[t].w.alias)
     IN  \E fails \in BOOLEAN :
           IF fails \/ ~CreateOk(path)
             THEN /\ IF CreateErrorRaised
                       THEN Finish(t, "raised")
                       ELSE /\ pc' = [pc EXCEPT ![t] = "cr_register"]
                            /\ UNCHANGED <<res, constructed>>
                  /\ log' = [log EXCEPT ![t] = Append(@, <<"createwallet", path, "err">>)]
                  /\ UNCHANGED <<nodeDisk, nodeLoaded>>
             ELSE /\ nodeDisk' = nodeDisk \cup {path}
                  /\ nodeLoaded' = nodeLoaded \cup {path}
                  /\ log' = [log EXCEPT ![t] = Append(@, <<"createwallet", path, "ok">>)]
                  /\ pc' = [pc EXCEPT ![t] = "cr_register"]
                  /\ UNCHANGED <<res, constructed>>
  /\ UNCHANGED <<mgr, files, corrupt, nodeLocked, epoch, loc, ops>>

\* wallet_manager.py:126-131: register the wallet under its name, save its
\* record file
CrRegister(t) ==
  /\ pc[t] = "cr_register"
  /\ wallets' = Put(wallets, loc[t].w.name, from_json(loc[t].w))
  /\ files' = IF working_folder # NoFolder THEN WriteFile(files, from_json(loc[t].w))
              ELSE files
  /\ log' = [log EXCEPT ![t] = Append(@, <<"register", loc[t].w.name, loc[t].w.alias>>)]
  /\ Finish(t, "ok")
  /\ UNCHANGED <<data_folder, chain, cli, working_folder, is_loading, node,
                 loc, ops>>

(* ---------------------------- delete_wallet ---------------------------- *)
\* unloadwallet(path) fails when the wallet is not loaded
UnloadOk(path) == path \in nodeLoaded

\* variant: the error of unloadwallet is swallowed
UnloadErrorSwallowed == FALSE

\* wallet_manager.py:187: nothing around the call catches its error
UnloadErrorRaised == TRUE

\* wallet_manager.py:185-187: the caller passes a wallet of the registry; the
\* node unloads it, or the call raises
delete_wallet(t) ==
  /\ CanCall(t)
  /\ \E k \in DOMAIN wallets, fails \in BOOLEAN :
       LET w == wallets[k]
           path == JoinPath(cli_path, w.alias)
       IN  /\ loc' = [loc EXCEPT ![t] = [NewLoc(t, "delete_wallet") EXCEPT
                                           !.w = w, !.seen = files,
                                           !.dir = nodeDisk]]
           /\ IF fails \/ ~UnloadOk(path)
                THEN /\ IF UnloadErrorRaised
                          THEN /\ pc' = pc
                               /\ res' = [res EXCEPT ![t] = "raised"]
                          ELSE /\ pc' = [pc EXCEPT ![t] = "del_files"]
                               /\ res' = [res EXCEPT ![t] = "none"]
                     /\ log' = [log EXCEPT ![t] = << <<"unloadwallet", path, "err">> >>]
                     /\ nodeLoaded' = nodeLoaded
                ELSE /\ pc' = [pc EXCEPT ![t] = "del_files"]
                     /\ res' = [res EXCEPT ![t] = "none"]
                     /\ log' = [log EXCEPT ![t] = << <<"unloadwallet", path, "ok">> >>]
                     /\ nodeLoaded' = nodeLoaded \ {path}
  /\ ops' = ops + 1
  /\ UNCHANGED <<mgr, files, nodeDisk, corrupt, nodeLocked, epoch, constructed>>

\* wallet_manager.py:189-194: remove the node's wallet directory when the
\* default data directory resolves and holds it, remove the record file, then
\* call self.update()
DelFiles(t) ==
  /\ pc[t] = "del_files"
  /\ LET path == JoinPath(cli_path, loc[t].w.alias)
     IN  \E datadir \in BOOLEAN :
           /\ nodeDisk' = IF datadir THEN nodeDisk \ {path} ELSE nodeDisk
           /\ corrupt' = IF datadir THEN corrupt \ {path} ELSE corrupt
  /\ files' = RemoveFile(files, loc[t].w.alias)
  /\ pc' = [pc EXCEPT ![t] = "upd_check"]
  /\ UNCHANGED <<mgr, nodeLoaded, nodeLocked, epoch, loc, log, res,
                 constructed, ops>>

(* ---------------------------- rename_wallet ---------------------------- *)
\* wallet_manager.py:196-201: set the name on the wallet object (which the
\* registry still holds under its old key), save its record file, then call
\* self.update()
rename_wallet(t) ==
  /\ CanCall(t)
  /\ \E k \in DOMAIN wallets, name \in Names :
       LET w == [wallets[k] EXCEPT !.name = name]
       IN  /\ loc' = [loc EXCEPT ![t] = [NewLoc(t, "rename_wallet") EXCEPT
                                           !.w = wallets[k], !.name = name]]
           /\ wallets' = [wallets EXCEPT ![k] = w]
           /\ files' = IF working_folder # NoFolder THEN WriteFile(files, w) ELSE files
  /\ pc' = [pc EXCEPT ![t] = "upd_check"]
  /\ res' = [res EXCEPT ![t] = "none"]
  /\ Called(t)
  /\ UNCHANGED <<data_folder, chain, cli, working_folder, is_loading, node,
                 constructed>>

(* ------------------------------ the node ------------------------------- *)
\* the node becomes able to load the wallets it could not load
NodeRecovers ==
  /\ corrupt # {}
  /\ corrupt' = {}
  /\ epoch' = epoch + 1
  /\ UNCHANGED <<mgr, files, nodeDisk, nodeLoaded, nodeLocked, pc, loc, log,
                 res, constructed, ops>>

(* --------------------------- specifications ---------------------------- *)
Step(t) ==
  \/ UpdCheck(t)
  \/ UpdBegin(t)
  \/ UpdList(t)
  \/ UpdRecord(t)
  \/ UpdEnd(t)
  \/ CallUpdate(t)
  \/ create_simple(t)
  \/ create_multi(t)
  \/ CrBuild(t)
  \/ CrCreateWallet(t)
  \/ CrRegister(t)
  \/ delete_wallet(t)
  \/ DelFiles(t)
  \/ rename_wallet(t)

\* one caller at a time
Next == Step(1) \/ NodeRecovers

Spec == Init /\ [][Next]_vars

\* callers on two threads, over a folder of at most MaxFilesConc records
InitConc == Init /\ Len(files) <= MaxFilesConc

NextConc == \E t \in Threads : Step(t)

SpecConc == InitConc /\ [][NextConc]_vars

RECURSIVE KeyLists(_)
\* the lists of 1 to n keys
KeyLists(n) ==
  IF n = 0 THEN {}
  ELSE KeyLists(n - 1) \cup [1..n -> Keys]

\* the create_multi calls under which the descriptor builder is examined
DescCalls ==
  { [sigs_required |-> m, key_type |-> kt, keys |-> ks] :
    m \in 1..MaxSigs, kt \in MultiTypes, ks \in KeyLists(MaxKeys) }

\* create_multi has been called on a manager constructed over an empty
\* working folder and an empty node, and has its initial dict (line 159)
InitDesc ==
  /\ data_folder = "d" /\ cli = "rpc" /\ chain = "main"
  /\ working_folder = <<"d", "main">>
  /\ is_loading = FALSE
  /\ wallets = EmptyRegistry
  /\ files = <<>>
  /\ nodeDisk = {} /\ nodeLoaded = {} /\ corrupt = {} /\ nodeLocked = {}
  /\ epoch = 0
  /\ pc = [t \in Threads |-> IF t = 1 THEN "cr_build" ELSE "idle"]
  /\ \E name \in Names, a \in DescCalls :
       loc = [t \in Threads |->
                IF t = 1
                  THEN [NoLoc EXCEPT
                          !.op = "create_multi", !.name = name, !.args = a,
                          !.w = get_initial_wallet_dict(name, <<>>, {}),
                          !.prev = [NoPrev EXCEPT !.op = "init", !.res = "ok",
                                      !.folder = <<"d", "main">>]]
                  ELSE NoLoc]
  /\ log = [t \in Threads |-> <<>>]
  /\ res = [t \in Threads |-> "none"]
  /\ constructed = TRUE
  /\ ops = 1

\* the rest of that create_multi call
NextDesc == CrBuild(1) \/ CrCreateWallet(1) \/ CrRegister(1)

SpecDesc == InitDesc /\ [][NextDesc]_vars

(* ------------------------- reading the log ----------------------------- *)
\* operations that end with a reconciliation pass
PassOps == {"init", "update", "delete_wallet", "rename_wallet"}
CreateOps == {"create_simple", "create_multi"}

\* thread t is back from an operation whose pass ran to its end
PassDone(t) == pc[t] = "idle" /\ res[t] = "ok" /\ loc[t].op \in PassOps

\* positions in t's log of the loadwallet calls for path that ended as `how`
LoadsAt(t, path, how) ==
  {i \in DOMAIN log[t] : /\ log[t][i][1] = "loadwallet"
                         /\ log[t][i][2] = path
                         /\ log[t][i][3] \in how}

LoadCalls(t, path) == Cardinality(LoadsAt(t, path, {"ok", "err"}))

\* the node paths whose loadwallet call failed during t's operation
FailedLoads(t) ==
  {JoinPath(cli_path, a) : a \in
     {loc[t].wf[i].alias : i \in
        {j \in DOMAIN loc[t].wf :
           LoadsAt(t, JoinPath(cli_path, loc[t].wf[j].alias), {"err"}) # {}}}}

\* the records of the pass (wallets_files, the mapping load_jsons returned)
PassRecords(t) == Range(loc[t].wf)

\* registry entries of alias a (what get_by_alias(a) looks through)
EntriesOf(a) == {n \in DOMAIN wallets : wallets[n].alias = a}

C3_Idempotent ==
  \A t \in Threads :
    ( /\ PassDone(t)
      /\ loc[t].op = "update"
      /\ loc[t].prev.op \in PassOps
      /\ loc[t].prev.res = "ok"
      /\ loc[t].prev.folder = working_folder
      /\ loc[t].prev.e0 = epoch ) => wallets = loc[t].prev.reg

\* the second of two such passes, the first of which (the constructor's)
\* had to load a wallet and failed to load another
C3_Witness ==
  /\ PassDone(1) /\ loc[1].op = "update"
  /\ loc[1].prev.op = "init" /\ loc[1].prev.res = "ok"
  /\ loc[1].prev.folder = working_folder /\ loc[1].prev.e0 = epoch
  /\ wallets # EmptyRegistry
  /\ FailedLoads(1) # {}
  /\ \E n \in DOMAIN wallets :
       JoinPath(cli_path, wallets[n].alias) \in loc[1].loaded
  /\ ops = 1

\* C4: after a completed pass no record file whose node path is missing from
\* the node's wallet directory listing has an entry in the registry, no
\* loadwallet call was issued for it, and the pass went through all records.
C4_OrphanSkipped ==
  \A t \in Threads :
    PassDone(t) =>
      /\ loc[t].i = Len(loc[t].wf) + 1 \/ working_folder = NoFolder
      /\ \A d \in PassRecords(t) \cup Range(files) :
           JoinPath(cli_path, d.alias) \notin loc[t].existing =>
             /\ EntriesOf(d.alias) = {}
             /\ LoadCalls(t, JoinPath(cli_path, d.alias)) = 0

\* a completed pass over an orphan record followed by a record that was
\* registered
C4_Witness ==
  /\ PassDone(1)
  /\ \E i, j \in DOMAIN loc[1].wf :
       /\ i < j
       /\ JoinPath(cli_path, loc[1].wf[i].alias) \notin loc[1].existing
       /\ EntriesOf(loc[1].wf[j].alias) # {}

C2_NoopUpdate ==
  [][\A t \in Threads :
       (pc[t] = "upd_check" /\ pc'[t] # "upd_check" /\ is_loading) =>
         /\ pc'[t] = "idle" /\ res'[t] = "noop"
         /\ \A u \in Threads \ {t} : pc'[u] = pc[u] /\ res'[u] = res[u]
         /\ UNCHANGED <<data_folder, chain, cli, working_folder, is_loading,
                        wallets, files, nodeDisk, nodeLoaded, corrupt,
                        nodeLocked, loc, log>>]_vars

\* an update called with all three overrides came back as a no-op while the
\* pass of the other thread, a wallet already registered, has not ended
C2_Witness ==
  \E t, u \in Threads :
    /\ t # u
    /\ pc[t] = "idle" /\ res[t] = "noop" /\ loc[t].op = "update"
    /\ loc[t].df # None /\ loc[t].cli # None /\ loc[t].chain # None
    /\ log[t] = <<>>
    /\ pc[u] = "upd_loop"
    /\ wallets # EmptyRegistry

Cand(name, k) == IF k = 1 THEN alias(name)
                 ELSE alias(name \o <<" ">> \o Decimal(k))

\* alias a was taken when t's create operation probed: a record file or an
\* entry of the node's wallet directory had it
TakenAt(t, a) ==
  a \in FileAliases(loc[t].seen) \/ JoinPath(cli_path, a) \in loc[t].dir

\* C7: two wallets created one after the other with the same name get
\* different aliases; each is the first candidate alias(name), alias("name 2"),
\* alias("name 3"), ... that was not taken, so the second is further along
\* than the first, and it is alias("name 2") when the first got alias(name)
\* and nothing else had alias("name 2").
C7_SecondAliasSuffixed ==
  \A t \in Threads :
    ( /\ pc[t] = "idle" /\ res[t] = "ok" /\ loc[t].op \in CreateOps
      /\ loc[t].prev.op \in CreateOps /\ loc[t].prev.res = "ok"
      /\ loc[t].prev.w.name = loc[t].w.name ) =>
        LET name == loc[t].w.name
            a1 == loc[t].prev.w.alias
            a2 == loc[t].w.alias
            K == 1..(Len(loc[t].seen) + Cardinality(loc[t].dir) + 1)
        IN  /\ a1 # a2
            /\ \E k1, k2 \in K :
                 /\ k1 < k2
                 /\ a1 = Cand(name, k1) /\ a2 = Cand(name, k2)
                 /\ \A j \in 1..(k2 - 1) : TakenAt(t, Cand(name, j))
                 /\ ~TakenAt(t, a2)
            /\ (a1 = alias(name) /\ ~TakenAt(t, Cand(name, 2)))
                 => a2 = alias(name \o <<" ", "2">>)

\* the second of two creations of one name: the first got alias(name), the
\* second alias("name 2")
C7_Witness ==
  /\ pc[1] = "idle" /\ res[1] = "ok" /\ loc[1].op \in CreateOps
  /\ loc[1].prev.op \in CreateOps /\ loc[1].prev.res = "ok"
  /\ loc[1].prev.w.name = loc[1].w.name
  /\ loc[1].prev.w.alias = alias(loc[1].w.name)
  /\ loc[1].w.alias = alias(loc[1].w.name \o <<" ", "2">>)

\* C8: no two record files of the working folder have the same alias, and an
\* alias the allocator has just returned is neither the alias of a record
\* file nor the path of an entry of the node's wallet directory.
C8_AliasUnique ==
  /\ \A i, j \in DOMAIN files : i # j => files[i].alias # files[j].alias
  /\ \A t \in Threads :
       pc[t] = "cr_createwallet" =>
         /\ loc[t].w.alias \notin FileAliases(files)
         /\ JoinPath(cli_path, loc[t].w.alias) \notin nodeDisk

\* the allocator has returned a suffixed alias because the node's wallet
\* directory, and no record file, had alias(name)
C8_Witness ==
  /\ pc[1] = "cr_createwallet"
  /\ JoinPath(cli_path, alias(loc[1].name)) \in nodeDisk
  /\ alias(loc[1].name) \notin FileAliases(files)
  /\ loc[1].w.alias # alias(loc[1].name)
  /\ files # <<>>

\* t's log has a call of `what` that failed
FailedCall(t, what) ==
  \E i \in DOMAIN log[t] : log[t][i][1] = what /\ log[t][i][3] = "err"

\* C9: when createwallet fails in create_simple or create_multi the operation
\* ends there with the error, the registry and the record files as they were
\* when it was called.
C9_CreateFailure ==
  \A t \in Threads :
    (loc[t].op \in CreateOps /\ FailedCall(t, "createwallet")) =>
      /\ pc[t] = "idle" /\ res[t] = "raised"
      /\ wallets = loc[t].prev.reg
      /\ files = loc[t].seen

\* a create_multi whose createwallet failed, wallets registered and files there
C9_Witness ==
  /\ loc[1].op = "create_multi" /\ FailedCall(1, "createwallet")
  /\ res[1] = "raised"
  /\ wallets # EmptyRegistry /\ files # <<>>

\* C10: when unloadwallet fails in delete_wallet the operation ends there
\* with the error: the record files and the node's wallet directory are as
\* they were when it was called, the registry still holds the wallet, and no
\* pass was run (nothing but the unload call is logged, the registry was not
\* reset).
C10_UnloadFailure ==
  \A t \in Threads :
    (loc[t].op = "delete_wallet" /\ FailedCall(t, "unloadwallet")) =>
      /\ pc[t] = "idle" /\ res[t] = "raised"
      /\ files = loc[t].seen
      /\ nodeDisk = loc[t].dir
      /\ wallets = loc[t].prev.reg
      /\ \E n \in DOMAIN wallets : wallets[n] = loc[t].w
      /\ Len(log[t]) = 1

\* a delete_wallet whose unloadwallet failed; the wallet's record file is there
C10_Witness ==
  /\ loc[1].op = "delete_wallet" /\ FailedCall(1, "unloadwallet")
  /\ res[1] = "raised"
  /\ loc[1].w.alias \in FileAliases(files)
  /\ JoinPath(cli_path, loc[1].w.alias) \in nodeDisk


\* C11: when rename_wallet(w, newName) returns, the record file of w's alias
\* is still there and carries newName, no createwallet or unloadwallet call
\* was issued, the registry holds a wallet of w's alias under newName, and it
\* has no entry under the name w had before.
C11_RenameOnlyName ==
  \A t \in Threads :
    ( /\ loc[t].op = "rename_wallet" /\ pc[t] = "idle"
      /\ res[t] \in {"ok", "noop"} ) =>
        LET a == loc[t].w.alias
            old == loc[t].w.name
            new == loc[t].name
        IN  /\ \A i \in DOMAIN log[t] :
                 log[t][i][1] \notin {"createwallet", "unloadwallet"}
            /\ \E i \in DOMAIN files : files[i].alias = a /\ files[i].name = new
            /\ new \in DOMAIN wallets /\ wallets[new].alias = a
            /\ old # new => old \notin DOMAIN wallets

\* C12: an update that ran with no gateway configured (self.cli is None after
\* the overrides) has ended normally: it raised nothing, it called no gateway
\* method, the registry is empty and is_loading is False again.
C12_NoGateway ==
  \A t \in Threads :
    ( /\ loc[t].op \in {"init", "update"}
      /\ cli = None
      /\ pc[t] = "idle" /\ res[t] \in {"ok", "raised"} ) =>
        /\ res[t] = "ok"
        /\ log[t] = <<>>
        /\ wallets = EmptyRegistry
        /\ ~is_loading

\* the wrappers t1, ..., tk of a key type t1-...-tk
Wrappers(key_type) == SelectSeq(key_type, LAMBDA c : c # "-")

\* t1(...tk(sortedmulti(m,K1<branch>,...,Kn<branch>))...) spelled out token
\* by token
ExpectedMulti(m, ts, keys, branch) ==
  LET k == Len(ts)
      n == Len(keys)
  IN  [j \in 1..(2 * k) |-> IF j % 2 = 1 THEN ts[(j + 1) \div 2] ELSE "("]
        \o <<"sortedmulti", "(">> \o Decimal(m)
        \o [j \in 1..(3 * n) |-> CASE j % 3 = 1 -> ","
                                   [] j % 3 = 2 -> keys[(j + 1) \div 3]
                                   [] OTHER -> branch]
        \o [j \in 1..(k + 1) |-> ")"]

\* C13: once create_multi with threshold m, keys K1..Kn and key type
\* t1-...-tk has built its dict, the receive descriptor is
\* t1(...tk(sortedmulti(m,K1/0/*,...,Kn/0/*))...) passed through AddChecksum
\* and the change descriptor the same with /1/* for /0/*: the keys in the
\* caller's order, the first wrapper outermost.  The wallet it registers and
\* the record file it writes carry the same descriptors and keys.
C13_MultiDescriptors ==
  \A t \in Threads :
    (loc[t].op = "create_multi" /\ loc[t].w.type = "multisig") =>
      LET a == loc[t].args
          w == loc[t].w
          recv == AddChecksum(ExpectedMulti(a.sigs_required,
                                Wrappers(a.key_type), a.keys, "/0/*"))
          change == AddChecksum(ExpectedMulti(a.sigs_required,
                                  Wrappers(a.key_type), a.keys, "/1/*"))
      IN  /\ w.recv_descriptor = recv
          /\ w.change_descriptor = change
          /\ w.keys = a.keys
          /\ (pc[t] = "idle" /\ res[t] = "ok") =>
               /\ wallets[w.name].recv_descriptor = recv
               /\ wallets[w.name].change_descriptor = change
               /\ \E i \in DOMAIN files :
                    /\ files[i].alias = w.alias
                    /\ files[i].recv_descriptor = recv
                    /\ files[i].change_descriptor = change
                    /\ files[i].keys = a.keys

\* a 2-of-3 wallet of key type sh-wsh was created from keys passed in an
\* order that is not sorted, and is registered
C13_Witness ==
  /\ loc[1].op = "create_multi" /\ pc[1] = "idle" /\ res[1] = "ok"
  /\ loc[1].args = [sigs_required |-> 2, key_type |-> <<"sh", "-", "wsh">>,
                    keys |-> <<"K3", "K1", "K2">>]
  /\ loc[1].name \in DOMAIN wallets
  /\ SubSeq(wallets[loc[1].name].recv_descriptor, 1, 16) =
       << "sh", "(", "wsh", "(", "sortedmulti", "(", "2", ",",
          "K3", "/0/*", ",", "K1", "/0/*", ",", "K2", "/0/*" >>

\* C14: every multisig record satisfies sigs_required <= number of keys:
\* every wallet of the registry (what create_multi returns and update
\* registers) and every record file.
C14_ThresholdWithinKeys ==
  LET Fine(w) == w.type = "multisig" => w.sigs_required <= Len(w.keys)
  IN  /\ \A n \in DOMAIN wallets : Fine(wallets[n])
      /\ \A i \in DOMAIN files : Fine(files[i])

\* thread t is in the body of a pass: it has set is_loading (line 45) and has
\* not yet cleared it (line 89)
InPass(t) == pc[t] \in {"upd_list", "upd_loop", "upd_end"}

\* C15: at no time are two update calls in the body of the pass: of the calls
\* of different threads at most one is between setting is_loading and
\* clearing it.
C15_MutualExclusion ==
  \A t, u \in Threads : (InPass(t) /\ InPass(u)) => t = u

\* the pass of t's operation ended because a listing call of lines 66-67
\* failed
ListingFailed(t) ==
  /\ pc[t] = "idle" /\ res[t] = "raised" /\ cli # None
  /\ \E i \in DOMAIN log[t] : log[t][i] = <<"listwalletdir", "err">>

\* C16: with one caller, once an update call that took the guard has ended,
\* by returning or because a listing call failed, is_loading is False; and an
\* update called after such a call is not a no-op.
C16_GuardReleased ==
  \A t \in Threads :
    /\ (loc[t].op \in PassOps /\ (PassDone(t) \/ ListingFailed(t)))
         => ~is_loading
    /\ ( /\ loc[t].op = "update" /\ pc[t] = "idle"
         /\ loc[t].prev.op \in PassOps
         /\ loc[t].prev.res \in {"ok", "raised"} ) => res[t] # "noop"

\* positions in t's log of the lockunspent calls for the wallet at path
LocksAt(t, path) ==
  {i \in DOMAIN log[t] : log[t][i][1] = "lockunspent" /\ log[t][i][2] = path}

\* C17: after a completed pass, for every record of the pass whose wallet was
\* loaded into the node in this pass and is in the registry, lockunspent was
\* called once for each of its pending PSBTs and the inputs of each of them
\* are locked at the node.
C17_LocksRestored ==
  \A t \in Threads :
    PassDone(t) =>
      \A d \in PassRecords(t) :
        LET path == JoinPath(cli_path, d.alias)
        IN  (LoadsAt(t, path, {"ok"}) # {} /\ EntriesOf(d.alias) # {}) =>
              /\ Cardinality(LocksAt(t, path)) = d.psbts
              /\ \A k \in 1..d.psbts : <<path, k>> \in nodeLocked

\* C18: after a completed pass the registry has an entry for a wallet exactly
\* when a record file of its alias exists, its node path was listed on the
\* node's disk, and it was listed as loaded or its loadwallet call of this
\* pass succeeded; the entry is the wallet of that file.
C18_RegistryExact ==
  \A t \in Threads :
    PassDone(t) =>
      \A a \in FileAliases(files) \cup {wallets[n].alias : n \in DOMAIN wallets} :
        LET path == JoinPath(cli_path, a)
            usable == /\ a \in FileAliases(files)
                      /\ path \in loc[t].existing
                      /\ \/ path \in loc[t].loaded
                         \/ LoadsAt(t, path, {"ok"}) # {}
        IN  /\ EntriesOf(a) # {} <=> usable
            /\ \A n \in EntriesOf(a) :
                 \E i \in DOMAIN files : wallets[n] = from_json(files[i])

\* C19: with one caller, when loadwallet failed for a record in one pass and
\* the node had become able to load that wallet by the time update was called
\* next (corrupt is emptied when the node recovers and never refilled, so the
\* epoch at the call being later than the epoch of the failed pass says so),
\* that update is not a no-op: it runs the pass, and unless a listing call
\* fails it ends with the wallet registered after a successful loadwallet.
C19_SelfHeal ==
  \A t \in Threads :
    ( /\ loc[t].op = "update" /\ pc[t] = "idle"
      /\ loc[t].prev.op \in PassOps
      /\ loc[t].prev.failed # {}
      /\ loc[t].e0 > loc[t].prev.e0 ) =>
        /\ res[t] # "noop"
        /\ ~ListingFailed(t) =>
             /\ res[t] = "ok"
             /\ \A p \in loc[t].prev.failed :
                  /\ LoadsAt(t, p, {"ok"}) # {}
                  /\ EntriesOf(p[2]) # {}

\* an update after the node's recovery registered a wallet that the pass
\* before it had failed to load
C19_Witness ==
  /\ loc[1].op = "update" /\ pc[1] = "idle" /\ res[1] = "ok"
  /\ loc[1].prev.op = "update"
  /\ loc[1].e0 > loc[1].prev.e0
  /\ \E p \in loc[1].prev.failed :
       /\ LoadsAt(1, p, {"ok"}) # {}
       /\ EntriesOf(p[2]) # {}
       /\ \A n \in DOMAIN loc[1].prev.reg : loc[1].prev.reg[n].alias # p[2]

\* C20: when create_simple or create_multi has returned the new wallet, or
\* rename_wallet has returned after its pass, every alias that had an entry
\* in the registry when the operation was called still has one (get_by_alias
\* still finds it).
C20_NoWalletLost ==
  \A t \in Threads :
    ( /\ loc[t].op \in CreateOps \cup {"rename_wallet"}
      /\ pc[t] = "idle" /\ res[t] = "ok" ) =>
        \A n \in DOMAIN loc[t].prev.reg :
          EntriesOf(loc[t].prev.reg[n].alias) # {}

=============================================================================
